---- MODULE Spec2Model ----
(***************************************************************************)
(* State-machine model of the UEBA behavioural-analytics core:            *)
(*   - AlertManager   (src/ueba/alerts/alert_manager.py)                   *)
(*   - RiskScorer     (src/ueba/detectors/risk_scorer.py)                  *)
(*   - BehaviorEngine (src/ueba/analytics/behavior_engine.py)              *)
(*   - UEBASystem     (src/ueba/main.py)                                   *)
(* Time is the value of datetime.utcnow(), in minutes.  A handler is one   *)
(* atomic action: the coroutines never suspend on a pending future, so the *)
(* event loop cannot interleave anything inside a handler.                 *)
(***************************************************************************)
EXTENDS Integers, Sequences, FiniteSets, TLC

VARIABLES
    now,                    \* datetime.utcnow(), minutes
    active_alerts,          \* AlertManager.active_alerts: alert_id -> Alert
    alert_cooldowns,        \* AlertManager.alert_cooldowns: cooldown key -> time
    notification_channels,  \* AlertManager.notification_channels
    sent,                   \* notifications handed to the transport by the last handler
    last,                   \* the last handler call: its name, arguments and outcome
    risk_cache,             \* RiskScorer.risk_cache: entity_id -> RiskScore
    historical_scores,      \* RiskScorer.historical_scores: entity_id -> <<(time, score)>>
    returned,               \* the RiskScore the last call returned, if it returned one
    baselines,              \* BehaviorEngine.baselines: entity_id -> BehaviorBaseline
    detected,               \* the last BehaviorEngine call: its arguments and result
    response,               \* the AnalysisResponse of the last analyze_entity_behavior
    tasks                   \* process_alert coroutines scheduled together on the event loop

vars == <<now, active_alerts, alert_cooldowns, notification_channels, sent, last,
          risk_cache, historical_scores, returned,
          baselines, detected, response, tasks>>

alertVars == <<active_alerts, alert_cooldowns, notification_channels, sent>>
riskVars  == <<risk_cache, historical_scores, returned>>
engineVars == <<baselines, detected, response>>

----------------------------------------------------------------------------
(* Bounds of the model *)

MaxAlerts == 1          \* alert objects stored, Spec
MaxCoolAlerts == 2      \* alert objects stored, SpecCool
MaxEscAlerts == 5       \* alert objects stored, SpecEsc
MaxTime == 60           \* clock bound (minutes), Spec and SpecCool
MaxEscTime == 1470      \* clock bound (minutes), SpecEsc
MaxChannels == 1        \* notification channels added
MaxMarks == 1           \* "ESCALATED: " prefixes accumulated on one description

(* Program constants *)

AlertCooldownMinutes == 60      \* settings.alert_cooldown_minutes
RepeatedAlertsThreshold == 5    \* ESCALATION_RULES['repeated_alerts_threshold']
EscalationWindowHours == 24     \* timedelta(hours=24) in _should_escalate_alert

NoneTime == 0 - 1               \* Optional[datetime] = None

----------------------------------------------------------------------------
(* Enumerations of models/schemas.py *)

AlertSeverity == {"low", "medium", "high", "critical"}
AlertStatus == {"open", "investigating", "resolved", "false_positive", "suppressed"}
\* The three recognised channel types dispatch alike; the model adds webhooks.
ChannelTypes == {"webhook"}

Entities == {"e1", "e2"}

\* The order low < medium < high < critical of the severity tiers.
SeverityRank(s) ==
    CASE s = "low" -> 0
      [] s = "medium" -> 1
      [] s = "high" -> 2
      [] s = "critical" -> 3

\* Alert(...): the pydantic constructor.  Config.use_enum_values = True makes
\* validation store the enum's value (a plain str) in severity; status keeps
\* its default and the optional fields are None.  asEnum = TRUE is an alert
\* whose severity field was assigned an AlertSeverity member after
\* construction (assignment is not validated).  Fields that no handler reads
\* and no notification carries (notes, assignee, feedback flag, updated_at,
\* evidence) are left out; title and description are kept as the number of
\* escalation prefixes they carry.
Alert(id, entity, severity, asEnum, t) ==
    [ alert_id |-> id,
      entity_id |-> entity,
      severity |-> severity,
      severity_is_enum |-> asEnum,
      status |-> "open",
      created_at |-> t,
      resolved_at |-> NoneTime,
      escalated |-> FALSE,
      escalated_at |-> NoneTime,
      suppressed_until |-> NoneTime,
      title_marks |-> 0,          \* "[ESCALATED] " prefixes on title
      desc_marks |-> 0,           \* "ESCALATED: " prefixes on description
      entry_severity |-> severity \* severity on entry to process_alert (history)
    ]

----------------------------------------------------------------------------
(* AlertManager: notification dispatch *)

\* One payload per enabled channel, in channel order.
_send_notifications(channels, alert) ==
    [ i \in 1..Len(channels) |->
        [ channel |-> channels[i],
          alert_id |-> alert.alert_id,
          entity_id |-> alert.entity_id,
          severity |-> alert.severity,
          status |-> alert.status,
          suppressed_until |-> alert.suppressed_until,
          title_marks |-> alert.title_marks,
          desc_marks |-> alert.desc_marks,
          resolution |-> FALSE ] ]

\* The alert after _send_escalation_notification: the title is restored,
\* the description keeps its new prefix.
EscalationMarked(alert) ==
    [alert EXCEPT !.title_marks = @ + 1, !.desc_marks = @ + 1]

_send_escalation_notification(channels, alert) ==
    _send_notifications(channels, EscalationMarked(alert))

\* Variant: a resolution notification whatever the severity.
_send_resolution_notification_All(channels, alert) ==
    [ i \in 1..Len(channels) |->
        [ channel |-> channels[i],
          alert_id |-> 0,
          entity_id |-> alert.entity_id,
          severity |-> "low",
          status |-> "open",
          suppressed_until |-> NoneTime,
          title_marks |-> 0,
          desc_marks |-> 0,
          resolution |-> TRUE ] ]

\* A resolution notification is sent for high and critical alerts only, for
\* a new Alert object of severity low.
_send_resolution_notification(channels, alert) ==
    IF alert.severity \notin {"high", "critical"}
    THEN <<>>
    ELSE [ i \in 1..Len(channels) |->
            [ channel |-> channels[i],
              alert_id |-> 0,
              entity_id |-> alert.entity_id,
              severity |-> "low",
              status |-> "open",
              suppressed_until |-> NoneTime,
              title_marks |-> 0,
              desc_marks |-> 0,
              resolution |-> TRUE ] ]

----------------------------------------------------------------------------
(* AlertManager: cooldown *)

\* f"{alert.entity_id}_{alert.severity.value}"
CooldownKey(alert) == <<alert.entity_id, alert.severity>>

\* alert.severity.value raises AttributeError when severity is a plain str;
\* both callers catch it.
KeyRaises(alert) == ~alert.severity_is_enum

_should_suppress_alert(cooldowns, alert, t) ==
    IF KeyRaises(alert)
    THEN FALSE
    ELSE /\ CooldownKey(alert) \in DOMAIN cooldowns
         /\ t - cooldowns[CooldownKey(alert)] < AlertCooldownMinutes

_set_alert_cooldown(cooldowns, alert, t) ==
    IF KeyRaises(alert)
    THEN cooldowns
    ELSE (CooldownKey(alert) :> t) @@ cooldowns

----------------------------------------------------------------------------
(* AlertManager: escalation *)

SimilarAlerts(alerts, alert, t) ==
    { id \in DOMAIN alerts :
        /\ alerts[id].entity_id = alert.entity_id
        /\ alerts[id].severity = alert.severity
        /\ alerts[id].created_at >= t - EscalationWindowHours * 60 }

\* Variant: no immediate escalation of critical alerts.
_should_escalate_alert_RepeatsOnly(alerts, alert, t) ==
    Cardinality(SimilarAlerts(alerts, alert, t)) >= RepeatedAlertsThreshold

\* Variant: the threshold must be exceeded, not reached.
_should_escalate_alert_Above(alerts, alert, t) ==
    IF alert.severity = "critical"
    THEN TRUE
    ELSE Cardinality(SimilarAlerts(alerts, alert, t)) > RepeatedAlertsThreshold

_should_escalate_alert(alerts, alert, t) ==
    IF alert.severity = "critical"
    THEN TRUE
    ELSE Cardinality(SimilarAlerts(alerts, alert, t)) >= RepeatedAlertsThreshold

\* Variant: medium is raised straight to critical.
RaisedSeverity_TwoTiers(s) ==
    CASE s = "medium" -> "critical"
      [] s = "high" -> "critical"
      [] OTHER -> s

\* Variant: every tier below critical is raised, low included.
RaisedSeverity_EveryTier(s) ==
    CASE s = "low" -> "medium"
      [] s = "medium" -> "high"
      [] s = "high" -> "critical"
      [] OTHER -> s

RaisedSeverity(s) ==
    CASE s = "medium" -> "high"
      [] s = "high" -> "critical"
      [] OTHER -> s

\* The alert after _escalate_alert; an assigned severity is an enum member.
_escalate_alert(alert, t) ==
    [alert EXCEPT
        !.escalated = TRUE,
        !.escalated_at = t,
        !.severity = RaisedSeverity(@),
        !.severity_is_enum = IF alert.severity \in {"medium", "high"} THEN TRUE ELSE @,
        !.desc_marks = @ + 1]

----------------------------------------------------------------------------
(* AlertManager: handlers, as functions of the manager's state *)

\* Variant: a dropped alert restarts the cooldown of its key.
process_alert_Refresh(alerts, cooldowns, channels, alert, t) ==
    IF _should_suppress_alert(cooldowns, alert, t)
    THEN [ active_alerts |-> alerts,
           alert_cooldowns |-> _set_alert_cooldown(cooldowns, alert, t),
           sent |-> <<>>, stored |-> FALSE ]
    ELSE LET stored1 == (alert.alert_id :> alert) @@ alerts
             cd == _set_alert_cooldown(cooldowns, alert, t)
             esc == _should_escalate_alert(stored1, alert, t)
             a1 == IF esc THEN _escalate_alert(alert, t) ELSE alert
             sentEsc == IF esc
                        THEN _send_escalation_notification(
                                 channels,
                                 [a1 EXCEPT !.desc_marks = alert.desc_marks])
                        ELSE <<>>
             sentAll == sentEsc \o _send_notifications(channels, a1)
             a2 == [a1 EXCEPT !.status = "open"]
         IN [ active_alerts |-> (alert.alert_id :> a2) @@ alerts,
              alert_cooldowns |-> cd,
              sent |-> sentAll,
              stored |-> TRUE ]

\* process_alert(alert): the new active_alerts, alert_cooldowns and the
\* notifications dispatched; stored = FALSE when the cooldown dropped it.
process_alert(alerts, cooldowns, channels, alert, t) ==
    IF _should_suppress_alert(cooldowns, alert, t)
    THEN [ active_alerts |-> alerts, alert_cooldowns |-> cooldowns,
           sent |-> <<>>, stored |-> FALSE ]
    ELSE LET stored1 == (alert.alert_id :> alert) @@ alerts
             cd == _set_alert_cooldown(cooldowns, alert, t)
             esc == _should_escalate_alert(stored1, alert, t)
             a1 == IF esc THEN _escalate_alert(alert, t) ELSE alert
             sentEsc == IF esc
                        THEN _send_escalation_notification(
                                 channels,
                                 [a1 EXCEPT !.desc_marks = alert.desc_marks])
                        ELSE <<>>
             sentAll == sentEsc \o _send_notifications(channels, a1)
             a2 == [a1 EXCEPT !.status = "open"]
         IN [ active_alerts |-> (alert.alert_id :> a2) @@ alerts,
              alert_cooldowns |-> cd,
              sent |-> sentAll,
              stored |-> TRUE ]

\* Variant: a resolved alert is taken out of active_alerts.
update_alert_status_Purge(alerts, channels, id, status, t) ==
    IF id \notin DOMAIN alerts
    THEN [ active_alerts |-> alerts, sent |-> <<>> ]
    ELSE IF status = "resolved"
         THEN [ active_alerts |-> [ x \in DOMAIN alerts \ {id} |-> alerts[x] ],
                sent |-> _send_resolution_notification(channels,
                             [alerts[id] EXCEPT !.status = status,
                                                !.resolved_at = t]) ]
         ELSE [ active_alerts |-> [alerts EXCEPT ![id].status = status],
                sent |-> <<>> ]

update_alert_status(alerts, channels, id, status, t) ==
    IF id \notin DOMAIN alerts
    THEN [ active_alerts |-> alerts, sent |-> <<>> ]
    ELSE LET a1 == [alerts[id] EXCEPT
                      !.status = status,
                      !.resolved_at = IF status = "resolved" THEN t ELSE @]
         IN [ active_alerts |-> [alerts EXCEPT ![id] = a1],
              sent |-> IF status = "resolved"
                       THEN _send_resolution_notification(channels, a1)
                       ELSE <<>> ]

\* Variant: an unknown id gets a record of its own.
mark_false_positive_Upsert(alerts, id, t) ==
    IF id \notin DOMAIN alerts
    THEN (id :> [Alert(id, "e1", "low", FALSE, t) EXCEPT
                    !.status = "false_positive", !.resolved_at = t]) @@ alerts
    ELSE [alerts EXCEPT ![id] =
            [@ EXCEPT !.status = "false_positive",
                      !.resolved_at = t]]

mark_false_positive(alerts, id, t) ==
    IF id \notin DOMAIN alerts
    THEN alerts
    ELSE [alerts EXCEPT ![id] =
            [@ EXCEPT !.status = "false_positive",
                      !.resolved_at = t]]

suppress_alert(alerts, id, until) ==
    IF id \notin DOMAIN alerts
    THEN alerts
    ELSE [alerts EXCEPT ![id] =
            [@ EXCEPT !.status = "suppressed", !.suppressed_until = until]]

add_notification_channel(channels, type) == Append(channels, type)

----------------------------------------------------------------------------
(* RiskScorer: arithmetic.  A float in [0,1] is an integer in 0..Scale, in  *)
(* ten-thousandths; divisions round down.                                  *)

Scale == 10^4

Min(a, b) == IF a <= b THEN a ELSE b
Max(a, b) == IF a >= b THEN a ELSE b

Ratio(n, d) == (n * Scale) \div d

RECURSIVE SumOver(_, _)
\* The sum of f[x] over the x in S.
SumOver(f, S) ==
    IF S = {} THEN 0
    ELSE LET x == CHOOSE y \in S : TRUE IN f[x] + SumOver(f, S \ {x})

RiskLevel == {"very_low", "low", "medium", "high", "very_high"}

\* event.timestamp.hour and event.timestamp.weekday(), with minute 0 the
\* epoch (a Thursday, weekday 3).
Hour(ts) == (ts \div 60) % 24
Weekday(ts) == ((ts \div 1440) + 3) % 7

MinTimestamp(events) ==
    CHOOSE t \in {events[i].timestamp : i \in 1..Len(events)} :
        \A i \in 1..Len(events) : t <= events[i].timestamp
MaxTimestamp(events) ==
    CHOOSE t \in {events[i].timestamp : i \in 1..Len(events)} :
        \A i \in 1..Len(events) : t >= events[i].timestamp
\* (max - min).total_seconds(), in minutes
TimeSpan(events) == MaxTimestamp(events) - MinTimestamp(events)

----------------------------------------------------------------------------
(* RiskScorer: the risk factors *)

\* anomaly_counts.get(type, 0)
AnomalyCount(anomalies, type) ==
    Cardinality({ i \in 1..Len(anomalies) : anomalies[i].anomaly_type = type })

_calculate_anomaly_risk(anomalies) ==
    IF anomalies = <<>>
    THEN [ k \in {"anomaly_count_risk", "anomaly_severity_risk"} |-> 0 ]
    ELSE LET n == Len(anomalies)
             total == SumOver([i \in 1..n |-> anomalies[i].anomaly_score], 1..n)
             loc == AnomalyCount(anomalies, "location_anomaly")
             tim == AnomalyCount(anomalies, "time_anomaly")
             acc == AnomalyCount(anomalies, "access_anomaly")
             base == ("anomaly_count_risk" :> Min(Ratio(n, 10), Scale))
                     @@ ("anomaly_severity_risk" :> total \div n)
             f1 == IF loc > 0
                   THEN ("location_anomaly_risk" :> Min(Ratio(loc, 3), Scale)) @@ base
                   ELSE base
             f2 == IF tim > 0
                   THEN ("time_anomaly_risk" :> Min(Ratio(tim, 5), Scale)) @@ f1
                   ELSE f1
         IN IF acc > 0
            THEN ("access_anomaly_risk" :> Min(Ratio(acc, 3), Scale)) @@ f2
            ELSE f2

_calculate_temporal_risk(events) ==
    IF events = <<>>
    THEN ("temporal_risk" :> 0)
    ELSE LET n == Len(events)
             hours == [ i \in 1..n |-> Hour(events[i].timestamp) ]
             off == Cardinality({ i \in 1..n : hours[i] < 8 \/ hours[i] > 18 })
             wkd == Cardinality({ i \in 1..n : Weekday(events[i].timestamp) >= 5 })
             ngt == Cardinality({ i \in 1..n : hours[i] >= 22 \/ hours[i] <= 6 })
             burst == IF n > 10
                      THEN IF TimeSpan(events) > 0
                           THEN Min(Ratio(n * 60, TimeSpan(events) * 100), Scale)
                           ELSE Scale
                      ELSE 0
         IN ("off_hours_risk" :> Ratio(off, n))
            @@ ("weekend_risk" :> Ratio(wkd, n))
            @@ ("night_activity_risk" :> Ratio(ngt, n))
            @@ ("activity_burst_risk" :> burst)

_calculate_volume_risk(events) ==
    IF events = <<>>
    THEN ("volume_risk" :> 0)
    ELSE LET n == Len(events)
             \* events_per_hour = n / max(span_hours, 1), as n * 60 / max(span, 60)
             spanMin == IF n > 1 THEN Max(TimeSpan(events), 60) ELSE 60
             high == IF n * 60 > 30 * spanMin
                     THEN Min(Ratio(n * 60, spanMin * 100), Scale)
                     ELSE 0
             megabytes == SumOver([i \in 1..n |-> events[i].megabytes], 1..n)
             \* data_mb / 1000.0
             data == IF megabytes > 0
                     THEN Min(Ratio(megabytes, 1000), Scale)
                     ELSE 0
         IN ("high_volume_risk" :> high) @@ ("data_volume_risk" :> data)

_calculate_access_risk(events) ==
    IF events = <<>>
    THEN ("access_risk" :> 0)
    ELSE LET n == Len(events)
             failed == Cardinality({ i \in 1..n : events[i].result = "failure" })
             succeeded == Cardinality({ i \in 1..n : events[i].result = "success" })
             sensitive == Cardinality({ i \in 1..n :
                             events[i].data_classification
                                 \in {"confidential", "secret", "top_secret"} })
             ips == { events[i].source_ip : i \in 1..Len(events) } \ {"none"}
         IN ("failed_access_risk" :>
                IF failed + succeeded > 0 THEN Ratio(failed, failed + succeeded) ELSE 0)
            @@ ("sensitive_access_risk" :> Min(Ratio(sensitive, 5), Scale))
            @@ ("multiple_ip_risk" :> Min(Ratio(Cardinality(ips), 10), Scale))
            @@ ("brute_force_risk" :>
                IF failed >= 10 THEN Min(Ratio(failed, 50), Scale) ELSE 0)

\* datetime.utcnow() - entity.last_activity raises TypeError when
\* last_activity carries a timezone (pydantic parses "...Z" to an aware
\* datetime).
BehavioralChangeRaises(entity) ==
    entity.last_activity # NoneTime /\ entity.last_activity_aware

_calculate_behavioral_change_risk(entity, events, t) ==
    LET days == (t - entity.last_activity) \div 1440
        dormant == IF entity.last_activity # NoneTime /\ days > 30 /\ events # <<>>
                   THEN Min(Ratio(days, 365), Scale)
                   ELSE 0
    IN ("dormant_reactivation_risk" :> dormant) @@ ("pattern_deviation_risk" :> 0)

_calculate_entity_specific_risk(entity) ==
    LET base == ("privileged_entity_risk" :>
                    IF entity.is_privileged THEN 3 * (Scale \div 10) ELSE 0)
                @@ ("external_entity_risk" :> 0)
                @@ ("service_account_risk" :>
                    IF entity.entity_type = "service_account" THEN Scale \div 10 ELSE 0)
    IN IF entity.entity_type = "device"
       THEN ("untrusted_device_risk" :>
                IF ~entity.is_trusted THEN 4 * (Scale \div 10) ELSE 0) @@ base
       ELSE base

\* dict.update in the order of calculate_entity_risk: a later family wins.
RiskFactors(entity, events, anomalies, t) ==
    _calculate_entity_specific_risk(entity)
    @@ _calculate_behavioral_change_risk(entity, events, t)
    @@ _calculate_access_risk(events)
    @@ _calculate_volume_risk(events)
    @@ _calculate_temporal_risk(events)
    @@ _calculate_anomaly_risk(anomalies)

----------------------------------------------------------------------------
(* RiskScorer: weighted combination, decay, level, history *)

\* The weight table of _calculate_weighted_score, in hundredths.
Weights ==
    ("anomaly_count_risk" :> 15) @@ ("anomaly_severity_risk" :> 15)
    @@ ("location_anomaly_risk" :> 10) @@ ("access_anomaly_risk" :> 10)
    @@ ("off_hours_risk" :> 5) @@ ("weekend_risk" :> 3)
    @@ ("night_activity_risk" :> 5) @@ ("activity_burst_risk" :> 8)
    @@ ("failed_access_risk" :> 10) @@ ("sensitive_access_risk" :> 8)
    @@ ("brute_force_risk" :> 12)
    @@ ("high_volume_risk" :> 6) @@ ("data_volume_risk" :> 4)
    @@ ("privileged_entity_risk" :> 5) @@ ("external_entity_risk" :> 4)
    @@ ("untrusted_device_risk" :> 8)
    @@ ("dormant_reactivation_risk" :> 6) @@ ("pattern_deviation_risk" :> 7)

\* Variant: a factor absent from the table weighs 0.1.
WeightOf_LargeDefault(name) == IF name \in DOMAIN Weights THEN Weights[name] ELSE 10

\* weights.get(factor_name, 0.01)
WeightOf(name) == IF name \in DOMAIN Weights THEN Weights[name] ELSE 1

_calculate_weighted_score(risk_factors) ==
    IF DOMAIN risk_factors = {}
    THEN 0
    ELSE LET names == DOMAIN risk_factors
             weighted == SumOver([k \in names |-> risk_factors[k] * WeightOf(k)], names)
             total == SumOver([k \in names |-> WeightOf(k)], names)
             normalized == IF total > 0 THEN weighted \div total ELSE 0
         IN Max(0, Min(normalized, Scale))

DayFactor == 5001       \* math.exp(-0.693 * 24 / 24) = 0.50007
HourFactor == 9715      \* math.exp(-0.693 * 1 / 24) = 0.97154

RECURSIVE PowFP(_, _)
PowFP(x, n) == IF n = 0 THEN Scale ELSE (x * PowFP(x, n - 1)) \div Scale

\* math.exp(-0.693 * hours_since_last / 24), for whole hours
\* Variant: a half-life of 48 hours.
DecayFactor_SlowHalfLife(minutes) ==
    (PowFP(DayFactor, minutes \div 2880)
        * PowFP(HourFactor, (minutes % 2880) \div 120)) \div Scale

DecayFactor(minutes) ==
    (PowFP(DayFactor, minutes \div 1440) * PowFP(HourFactor, (minutes % 1440) \div 60))
    \div Scale

HasHistory(history, entity_id) ==
    entity_id \in DOMAIN history /\ history[entity_id] # <<>>

\* Variant: the decay is measured from the latest history entry of any
\* entity, not of the entity scored.
_apply_time_decay_AnyEntity(history, entity_id, score, t) ==
    LET stamps == { history[e][Len(history[e])][1] :
                      e \in { x \in DOMAIN history : history[x] # <<>> } }
    IN IF stamps # {}
       THEN LET last_timestamp == CHOOSE m \in stamps : \A x \in stamps : x <= m
            IN Max((score * DecayFactor(t - last_timestamp)) \div Scale, 0)
       ELSE score

_apply_time_decay(history, entity_id, score, t) ==
    IF HasHistory(history, entity_id)
    THEN LET scores == history[entity_id]
             last_timestamp == scores[Len(scores)][1]
         IN Max((score * DecayFactor(t - last_timestamp)) \div Scale, 0)
    ELSE score

_determine_risk_level(score) ==
    IF score >= 8 * (Scale \div 10) THEN "very_high"
    ELSE IF score >= 6 * (Scale \div 10) THEN "high"
    ELSE IF score >= 4 * (Scale \div 10) THEN "medium"
    ELSE IF score >= 2 * (Scale \div 10) THEN "low"
    ELSE "very_low"

RetentionDays == 30     \* timedelta(days=30) in _update_historical_scores

RECURSIVE SelectFrom(_, _)
\* The entries of seq with timestamp >= cutoff, in order.
SelectFrom(seq, cutoff) ==
    IF seq = <<>> THEN <<>>
    ELSE IF Head(seq)[1] >= cutoff
         THEN <<Head(seq)>> \o SelectFrom(Tail(seq), cutoff)
         ELSE SelectFrom(Tail(seq), cutoff)

\* Variant: the list is appended to and never pruned.
_update_historical_scores_Unpruned(history, entity_id, score, t) ==
    LET old == IF entity_id \in DOMAIN history THEN history[entity_id] ELSE <<>>
    IN (entity_id :> Append(old, <<t, score>>)) @@ history

\* Variant: the map is rebuilt with the one entity's list.
_update_historical_scores_Alone(history, entity_id, score, t) ==
    LET old == IF entity_id \in DOMAIN history THEN history[entity_id] ELSE <<>>
        appended == Append(old, <<t, score>>)
    IN (entity_id :> SelectFrom(appended, t - RetentionDays * 1440))

_update_historical_scores(history, entity_id, score, t) ==
    LET old == IF entity_id \in DOMAIN history THEN history[entity_id] ELSE <<>>
        appended == Append(old, <<t, score>>)
    IN (entity_id :> SelectFrom(appended, t - RetentionDays * 1440)) @@ history

_create_default_risk_score(entity, t) ==
    [ entity_id |-> entity.entity_id,
      entity_type |-> entity.entity_type,
      overall_score |-> 0,
      risk_level |-> "very_low",
      risk_factors |-> [ k \in {} |-> 0 ],
      manual_adjustments |-> <<>>,
      contributing_events |-> <<>>,
      calculation_method |-> "default",
      decay_applied |-> FALSE,
      last_calculated |-> t ]

\* events[-10:]
LastTen(events) ==
    SubSeq(events, Max(1, Len(events) - 9), Len(events))

\* Variant: an entity already in the risk cache carries one more factor, so
\* the score before decay depends on the calls made before.
calculate_entity_risk_Repeat(cache, history, entity, events, anomalies, t) ==
    LET factors == IF entity.entity_id \in DOMAIN cache
                   THEN ("repeated_scoring_risk" :> Scale)
                        @@ RiskFactors(entity, events, anomalies, t)
                   ELSE RiskFactors(entity, events, anomalies, t)
        raw == _calculate_weighted_score(factors)
        overall == _apply_time_decay(history, entity.entity_id, raw, t)
        score == [ entity_id |-> entity.entity_id,
                   entity_type |-> entity.entity_type,
                   overall_score |-> overall,
                   risk_level |-> _determine_risk_level(overall),
                   risk_factors |-> factors,
                   manual_adjustments |-> <<>>,
                   contributing_events |-> <<>>,
                   calculation_method |-> "weighted_ensemble",
                   decay_applied |-> TRUE,
                   last_calculated |-> t ]
    IN [ risk_cache |-> (entity.entity_id :> score) @@ cache,
         historical_scores |->
             _update_historical_scores(history, entity.entity_id, overall, t),
         returned |-> score, ok |-> TRUE ]

\* calculate_entity_risk: the new cache and history and the RiskScore
\* returned; ok = FALSE when the except branch returned the default score.
calculate_entity_risk(cache, history, entity, events, anomalies, t) ==
    IF BehavioralChangeRaises(entity)
    THEN [ risk_cache |-> cache, historical_scores |-> history,
           returned |-> _create_default_risk_score(entity, t), ok |-> FALSE ]
    ELSE LET factors == RiskFactors(entity, events, anomalies, t)
             raw == _calculate_weighted_score(factors)
             overall == _apply_time_decay(history, entity.entity_id, raw, t)
             score == [ entity_id |-> entity.entity_id,
                        entity_type |-> entity.entity_type,
                        overall_score |-> overall,
                        risk_level |-> _determine_risk_level(overall),
                        risk_factors |-> factors,
                        manual_adjustments |-> <<>>,
                        contributing_events |->
                            [ i \in 1..Len(LastTen(events)) |-> LastTen(events)[i].event_id ],
                        calculation_method |-> "weighted_ensemble",
                        decay_applied |-> TRUE,
                        last_calculated |-> t ]
         IN IF overall < 0 \/ overall > Scale
            THEN \* RiskScore's validator raises ValueError
                 [ risk_cache |-> cache, historical_scores |-> history,
                   returned |-> _create_default_risk_score(entity, t), ok |-> FALSE ]
            ELSE [ risk_cache |-> (entity.entity_id :> score) @@ cache,
                   historical_scores |->
                       _update_historical_scores(history, entity.entity_id, overall, t),
                   returned |-> score, ok |-> TRUE ]

\* update_risk_score mutates the cached RiskScore in place; each call adds
\* one 'manual_adjustment_<timestamp>' factor.
update_risk_score(cache, entity_id, additional_risk) ==
    IF entity_id \notin DOMAIN cache
    THEN cache
    ELSE LET new_score == Min(cache[entity_id].overall_score + additional_risk, Scale)
         IN [cache EXCEPT ![entity_id] =
                [@ EXCEPT !.overall_score = new_score,
                          !.risk_level = _determine_risk_level(new_score),
                          !.manual_adjustments = Append(@, additional_risk)]]

NoRiskScore == [ calculation_method |-> "none" ]

----------------------------------------------------------------------------
(* Actions of the alert manager *)

NoCall == [ op |-> "none", alert_id |-> 0, entity_id |-> "", severity |-> "",
            stored |-> FALSE, fresh |-> FALSE ]

EmptyMap == [ x \in {} |-> 0 ]

\* No BehaviorEngine call and no analysis yet.
NoDetection == [ op |-> "none" ]
NoResponse == [ status |-> "none" ]

\* The id of the next Alert object (alert_id is a fresh uuid4).
NextAlertId == Cardinality(DOMAIN active_alerts) + 1

ApplyProcess(alert, fresh) ==
    LET r == process_alert(active_alerts, alert_cooldowns,
                           notification_channels, alert, now)
    IN /\ active_alerts' = r.active_alerts
       /\ alert_cooldowns' = r.alert_cooldowns
       /\ sent' = r.sent
       /\ last' = [ op |-> "process_alert", alert_id |-> alert.alert_id,
                    entity_id |-> alert.entity_id, severity |-> alert.severity,
                    stored |-> r.stored, fresh |-> fresh ]
       /\ UNCHANGED <<now, notification_channels, riskVars, engineVars, tasks>>

\* process_alert on a newly constructed Alert.
ProcessNewAlert(maxAlerts, entities, severities, kinds) ==
    /\ NextAlertId <= maxAlerts
    /\ \E e \in entities, s \in severities, asEnum \in kinds :
          ApplyProcess(Alert(NextAlertId, e, s, asEnum, now), TRUE)

\* process_alert on an Alert object that is already stored.
ProcessStoredAlert ==
    \E id \in DOMAIN active_alerts :
        /\ active_alerts[id].desc_marks < MaxMarks
        /\ ApplyProcess(active_alerts[id], FALSE)

UpdateAlertStatus(ids, statuses) ==
    \E id \in ids, status \in statuses :
        LET r == update_alert_status(active_alerts, notification_channels,
                                     id, status, now)
        IN /\ active_alerts' = r.active_alerts
           /\ sent' = r.sent
           /\ last' = [ NoCall EXCEPT !.op = "update_alert_status", !.alert_id = id ]
           /\ UNCHANGED <<now, alert_cooldowns, notification_channels, riskVars, engineVars, tasks>>

MarkFalsePositive(ids) ==
    \E id \in ids :
        /\ active_alerts' = mark_false_positive(active_alerts, id, now)
        /\ sent' = <<>>
        /\ last' = [ NoCall EXCEPT !.op = "mark_false_positive", !.alert_id = id ]
        /\ UNCHANGED <<now, alert_cooldowns, notification_channels, riskVars, engineVars, tasks>>

SuppressAlert(ids, durations) ==
    \E id \in ids, d \in durations :
        /\ active_alerts' = suppress_alert(active_alerts, id, now + d)
        /\ sent' = <<>>
        /\ last' = [ NoCall EXCEPT !.op = "suppress_alert", !.alert_id = id ]
        /\ UNCHANGED <<now, alert_cooldowns, notification_channels, riskVars, engineVars, tasks>>

AddNotificationChannel ==
    /\ Len(notification_channels) < MaxChannels
    /\ \E type \in ChannelTypes :
          notification_channels' = add_notification_channel(notification_channels, type)
    /\ sent' = <<>>
    /\ last' = [ NoCall EXCEPT !.op = "add_notification_channel" ]
    /\ UNCHANGED <<now, active_alerts, alert_cooldowns, riskVars, engineVars, tasks>>

\* The clock advances between handler calls.
Tick(steps, maxTime) ==
    /\ \E d \in steps : now + d <= maxTime /\ now' = now + d
    /\ sent' = <<>>
    /\ last' = [ NoCall EXCEPT !.op = "tick" ]
    /\ UNCHANGED <<active_alerts, alert_cooldowns, notification_channels, riskVars, engineVars, tasks>>

----------------------------------------------------------------------------
(* Specifications of the alert manager *)

Init ==
    /\ now = 0
    /\ active_alerts = EmptyMap
    /\ alert_cooldowns = EmptyMap
    /\ notification_channels = <<>>
    /\ sent = <<>>
    /\ last = NoCall
    /\ tasks = <<>>
    /\ risk_cache = EmptyMap
    /\ historical_scores = EmptyMap
    /\ returned = NoRiskScore
    /\ baselines = EmptyMap
    /\ detected = NoDetection
    /\ response = NoResponse

\* Spec: every handler, on alerts built by the Alert(...) constructor as
\* main.py builds them.  Ids one past the stored ones are unknown ids.
AlertIds == 1..(MaxAlerts + 1)
TickSteps == {60}
SuppressDurations == {30}
SpecSeverities == {"medium", "critical"}
SpecEntities == {"e1"}
\* Statuses passed to update_alert_status; false_positive and suppressed are
\* reached through their own handlers.
UpdateStatuses == {"open", "investigating", "resolved"}

Next ==
    \/ ProcessNewAlert(MaxAlerts, SpecEntities, SpecSeverities, {FALSE})
    \/ ProcessStoredAlert
    \/ UpdateAlertStatus(AlertIds, UpdateStatuses)
    \/ MarkFalsePositive(AlertIds)
    \/ SuppressAlert(AlertIds, SuppressDurations)
    \/ AddNotificationChannel
    \/ Tick(TickSteps, MaxTime)

Spec == Init /\ [][Next]_vars

\* SpecCool: the cooldown.  Alerts arrive for two entities, with the severity
\* held as a str (constructor) or as an enum member (assigned).
CoolTickSteps == {30, 60}
CoolSeverities == {"medium", "high", "critical"}

NextCool ==
    \/ ProcessNewAlert(MaxCoolAlerts, Entities, CoolSeverities, BOOLEAN)
    \/ ProcessStoredAlert
    \/ Tick(CoolTickSteps, MaxTime)

SpecCool == Init /\ [][NextCool]_vars

\* SpecEsc: escalation by repetition.  Enough alerts of one entity for the
\* threshold, over a clock that reaches the edge of the 24-hour window and
\* passes it; the status handlers act on the first alert.
EscTickSteps == {1440, 1470}
EscSeverities == {"medium", "high"}
EscStatuses == {"resolved"}

NextEscOf(severities) ==
    \/ ProcessNewAlert(MaxEscAlerts, SpecEntities, severities, {FALSE})
    \/ ProcessStoredAlert
    \/ UpdateAlertStatus({1}, EscStatuses)
    \/ MarkFalsePositive({1})
    \/ SuppressAlert({1}, SuppressDurations)
    \/ Tick(EscTickSteps, MaxEscTime)

NextEsc == NextEscOf(EscSeverities)

SpecEsc == Init /\ [][NextEsc]_vars

\* SpecEscLow: escalation by repetition of low alerts, next to high ones,
\* with notification channels to dispatch to.
EscLowSeverities == {"low", "high"}

NextEscLow ==
    \/ ProcessNewAlert(MaxEscAlerts, SpecEntities, EscLowSeverities, {FALSE})
    \/ ProcessStoredAlert
    \/ AddNotificationChannel
    \/ Tick(EscTickSteps, MaxEscTime)

SpecEscLow == Init /\ [][NextEscLow]_vars

----------------------------------------------------------------------------
(* Properties of the alert manager *)

\* The alert the last process_alert call stored, when it stored one.
LastProcessed == active_alerts[last.alert_id]

FirstProcessing(severity) ==
    /\ last.op = "process_alert"
    /\ last.fresh
    /\ last.stored
    /\ last.severity = severity

\* C1: of two alerts with the same (entity_id, severity) passed to
\* process_alert within the cooldown window, only one is in active_alerts.
C1_OneStoredPerCooldown ==
    \A i, j \in DOMAIN active_alerts :
        ( /\ i < j
          /\ active_alerts[i].entity_id = active_alerts[j].entity_id
          /\ active_alerts[i].entry_severity = active_alerts[j].entry_severity )
        => active_alerts[j].created_at - active_alerts[i].created_at
               >= AlertCooldownMinutes

\* C2: after the first processing of a critical alert, the stored alert is
\* escalated, carries the escalation timestamp and is still critical.
C2_CriticalEscalated ==
    FirstProcessing("critical") =>
        /\ LastProcessed.escalated
        /\ LastProcessed.escalated_at = now
        /\ LastProcessed.severity = "critical"

C2_Witness ==
    /\ FirstProcessing("critical")
    /\ LastProcessed.escalated
    /\ LastProcessed.escalated_at = now

\* The alerts of the entity of the last processed alert that arrived as
\* medium within the trailing 24 hours, the last processed one excluded.
EarlierMedium ==
    { id \in DOMAIN active_alerts \ {last.alert_id} :
        /\ active_alerts[id].entity_id = last.entity_id
        /\ active_alerts[id].entry_severity = "medium"
        /\ active_alerts[id].created_at >= now - EscalationWindowHours * 60 }

\* C3: a medium alert stored as one of the first four of its entity within
\* 24 hours stays medium and un-escalated; the fifth is escalated to high.
C3_FifthMediumEscalates ==
    FirstProcessing("medium") =>
        /\ Cardinality(EarlierMedium) < RepeatedAlertsThreshold - 1 =>
              /\ ~LastProcessed.escalated
              /\ LastProcessed.severity = "medium"
        /\ Cardinality(EarlierMedium) = RepeatedAlertsThreshold - 1 =>
              /\ LastProcessed.escalated
              /\ LastProcessed.escalated_at = now
              /\ LastProcessed.severity = "high"

C3_Witness ==
    /\ FirstProcessing("medium")
    /\ Cardinality(EarlierMedium) = RepeatedAlertsThreshold - 1
    /\ LastProcessed.severity = "high"
    /\ \A id \in EarlierMedium : ~active_alerts[id].escalated

\* C4: no handler lowers the severity of an alert it stores or finds stored;
\* a severity changes only by one tier upwards, in process_alert, on an
\* alert that is then escalated.  The severity before the step is the stored
\* one, or the one the alert arrived with when the step stores it.
C4_SeverityNeverDecreases ==
    [][ /\ DOMAIN active_alerts \subseteq DOMAIN active_alerts'
        /\ \A id \in DOMAIN active_alerts' :
              LET before == IF id \in DOMAIN active_alerts
                            THEN active_alerts[id].severity
                            ELSE last'.severity
                  after == active_alerts'[id].severity
              IN /\ SeverityRank(after) >= SeverityRank(before)
                 /\ after # before =>
                       /\ SeverityRank(after) = SeverityRank(before) + 1
                       /\ active_alerts'[id].escalated
                       /\ last'.op = "process_alert" ]_vars

C4_Witness ==
    \E id \in DOMAIN active_alerts :
        /\ active_alerts[id].entry_severity = "high"
        /\ active_alerts[id].severity = "critical"
        /\ active_alerts[id].escalated

Terminal == {"resolved", "false_positive"}

\* C5: once the status of a stored alert is resolved or false_positive, no
\* handler changes it.
C5_TerminalStatusKept ==
    [][ \A id \in DOMAIN active_alerts :
          active_alerts[id].status \in Terminal =>
              active_alerts'[id].status = active_alerts[id].status ]_vars

\* C6: once an alert of the same entity and severity has been processed
\* after the end of an alert's suppression window, that alert is no longer
\* suppressed.
C6_SuppressionLapses ==
    (last.op = "process_alert" /\ last.fresh /\ last.stored) =>
        \A id \in DOMAIN active_alerts \ {last.alert_id} :
            ( /\ active_alerts[id].entity_id = last.entity_id
              /\ active_alerts[id].entry_severity = last.severity
              /\ active_alerts[id].suppressed_until # NoneTime
              /\ active_alerts[id].suppressed_until < now )
            => active_alerts[id].status # "suppressed"

\* C7: no notification goes out for an alert that is suppressed and whose
\* suppressed_until lies ahead.
C7_NoNotificationWhileSuppressed ==
    \A i \in 1..Len(sent) :
        ~( /\ sent[i].status = "suppressed"
           /\ now < sent[i].suppressed_until )

StatusHandlers == {"update_alert_status", "mark_false_positive", "suppress_alert"}

\* C8: update_alert_status, mark_false_positive and suppress_alert on an id
\* that is not in active_alerts send nothing and leave active_alerts and
\* alert_cooldowns as they were.
C8_UnknownIdNoOp ==
    [][ (last'.op \in StatusHandlers /\ last'.alert_id \notin DOMAIN active_alerts) =>
          /\ active_alerts' = active_alerts
          /\ alert_cooldowns' = alert_cooldowns
          /\ sent' = <<>> ]_vars

C8_Witness ==
    /\ last.op = "suppress_alert"
    /\ last.alert_id \notin DOMAIN active_alerts
    /\ active_alerts # EmptyMap
    /\ notification_channels # <<>>

\* C24: no step removes an alert id from active_alerts, and a stored id
\* keeps the alert it was stored with (its alert_id, entity and creation
\* time).
C24_AlertsNeverDeleted ==
    [][ \A id \in DOMAIN active_alerts :
          /\ id \in DOMAIN active_alerts'
          /\ active_alerts'[id].alert_id = active_alerts[id].alert_id
          /\ active_alerts'[id].entity_id = active_alerts[id].entity_id
          /\ active_alerts'[id].created_at = active_alerts[id].created_at ]_vars

C24_Witness ==
    /\ last.op = "update_alert_status"
    /\ last.alert_id \in DOMAIN active_alerts
    /\ active_alerts[last.alert_id].status = "resolved"
    /\ active_alerts[last.alert_id].resolved_at = now

\* C25: a process_alert call that the cooldown check drops leaves
\* active_alerts and alert_cooldowns as they were and hands no notification
\* to any channel.
C25_DroppedAlertNoEffect ==
    [][ (last'.op = "process_alert" /\ ~last'.stored)
        => /\ active_alerts' = active_alerts
           /\ alert_cooldowns' = alert_cooldowns
           /\ sent' = <<>> ]_vars

\* An alert dropped half an hour after the stored alert of its key.
C25_Witness ==
    /\ last.op = "process_alert"
    /\ ~last.stored
    /\ CooldownKey(last) \in DOMAIN alert_cooldowns
    /\ alert_cooldowns[CooldownKey(last)] < now

\* C26: after process_alert has stored an alert, alert_cooldowns holds, for
\* the entity and the severity the stored alert now has, the time of the
\* call.
C26_CooldownOfStoredSeverity ==
    (last.op = "process_alert" /\ last.stored)
    => /\ CooldownKey(LastProcessed) \in DOMAIN alert_cooldowns
       /\ alert_cooldowns[CooldownKey(LastProcessed)] = now

\* C29: a new alert that process_alert has stored carries the title and the
\* description it had on entry: neither holds an escalation prefix.
C29_PayloadKept ==
    (last.op = "process_alert" /\ last.stored /\ last.fresh)
    => /\ LastProcessed.title_marks = 0
       /\ LastProcessed.desc_marks = 0

\* The stored alerts of the entity of the last processed alert that arrived
\* as low within the trailing 24 hours, the last processed one included.
StoredLow ==
    { id \in DOMAIN active_alerts :
        /\ active_alerts[id].entity_id = last.entity_id
        /\ active_alerts[id].entry_severity = "low"
        /\ active_alerts[id].created_at >= now - EscalationWindowHours * 60 }

\* The payloads of the escalation notification of the last processed alert:
\* one per channel, with the prefixed title.
EscalationPayloads ==
    { i \in 1..Len(sent) :
        sent[i].alert_id = last.alert_id /\ sent[i].title_marks = 1 }

SeveritySteps == { <<"medium", "high">>, <<"high", "critical">> }

\* C30: a low alert stored as the fifth or later of its entity within 24
\* hours is escalated, carries the escalation timestamp, has had its
\* escalation notification dispatched to every channel and is still low; the
\* severity of an alert changes only from medium to high or from high to
\* critical.
C30_LowEscalationKeepsSeverity ==
    [][ /\ ( /\ FirstProcessing("low")'
             /\ Cardinality(StoredLow') >= RepeatedAlertsThreshold )
           => /\ LastProcessed'.escalated
              /\ LastProcessed'.escalated_at = now'
              /\ LastProcessed'.severity = "low"
              /\ Cardinality(EscalationPayloads')
                     = Len(notification_channels')
        /\ \A id \in DOMAIN active_alerts' :
              LET before == IF id \in DOMAIN active_alerts
                            THEN active_alerts[id].severity
                            ELSE last'.severity
                  after == active_alerts'[id].severity
              IN after # before => <<before, after>> \in SeveritySteps ]_vars

\* The fifth low alert of an entity, escalated by repetition and announced
\* on a channel.
C30_Witness ==
    /\ FirstProcessing("low")
    /\ Cardinality(StoredLow) = RepeatedAlertsThreshold
    /\ LastProcessed.escalated
    /\ LastProcessed.severity = "low"
    /\ Len(notification_channels) > 0
    /\ EscalationPayloads # {}

\* C20: update_alert_status(id, resolved) sets status and resolved_at and
\* sends a resolution notification, to every channel, if the alert is high
\* or critical, and nothing otherwise.
C20_ResolutionNotification ==
    [][ ( /\ last'.op = "update_alert_status"
          /\ last'.alert_id \in DOMAIN active_alerts
          /\ active_alerts'[last'.alert_id].status = "resolved" ) =>
          LET before == active_alerts[last'.alert_id]
              after == active_alerts'[last'.alert_id]
          IN /\ after.resolved_at = now
             /\ after.severity = before.severity
             /\ IF before.severity \in {"high", "critical"}
                THEN /\ Len(sent') = Len(notification_channels)
                     /\ \A i \in 1..Len(sent') :
                           /\ sent'[i].resolution
                           /\ sent'[i].entity_id = before.entity_id
                ELSE sent' = <<>> ]_vars

C20_Witness ==
    /\ last.op = "update_alert_status"
    /\ last.alert_id \in DOMAIN active_alerts
    /\ active_alerts[last.alert_id].status = "resolved"
    /\ active_alerts[last.alert_id].severity = "critical"
    /\ sent # <<>>
    /\ sent[1].resolution

----------------------------------------------------------------------------
(* Actions and specification of the risk scorer *)

MaxHistory == 2         \* history entries kept per entity
MaxAdjustments == 1     \* update_risk_score calls on one cached score

\* The instants at which the clock is read: a day apart for the decay, and
\* 31 days on, when the first is past the 30-day retention window and the
\* second at its edge.
RiskTimes == {0, 1440, 31 * 1440}

\* megabytes: bytes_accessed or bytes_sent, in units of 1024 * 1024 bytes.
Event(id, ts, result, classification, ip, megabytes) ==
    [ event_id |-> id, timestamp |-> ts, result |-> result,
      data_classification |-> classification, source_ip |-> ip,
      megabytes |-> megabytes ]

\* Two failed logins at 03:00 and 03:10 from two addresses, then a read of
\* confidential data.
NightEvents ==
    << Event("ev1", 180, "failure", "none", "10.0.0.1", 0),
       Event("ev2", 190, "failure", "none", "10.0.0.2", 0),
       Event("ev3", 200, "allowed", "confidential", "10.0.0.2", 500) >>

Anomaly(type, score) == [ anomaly_type |-> type, anomaly_score |-> score ]

SuspectAnomalies ==
    << Anomaly("location_anomaly", 9 * (Scale \div 10)),
       Anomaly("time_anomaly", 93 * (Scale \div 100)) >>

Entity(id, type, privileged, trusted, last_activity, aware) ==
    [ entity_id |-> id, entity_type |-> type, is_privileged |-> privileged,
      is_trusted |-> trusted, last_activity |-> last_activity,
      last_activity_aware |-> aware ]

\* A privileged user, with a naive and with a timezone-aware last_activity,
\* and an untrusted device dormant for 45 days.
UserNaive == Entity("u1", "user", TRUE, FALSE, 0 - 1440, FALSE)
UserAware == Entity("u1", "user", TRUE, FALSE, 0 - 1440, TRUE)
Device == Entity("d2", "device", FALSE, FALSE, 0 - 45 * 1440, FALSE)

\* The (entity, events, anomalies) arguments of calculate_entity_risk.
RiskInputs ==
    { <<UserNaive, <<>>, <<>> >>,
      <<UserNaive, NightEvents, SuspectAnomalies>>,
      <<UserAware, NightEvents, SuspectAnomalies>>,
      <<Device, NightEvents, <<>> >> }

\* The entity ids passed to update_risk_score: a scored user and an id that
\* was never scored.
RiskEntityIds == {"u1", "unknown"}

\* additional_risk arguments of update_risk_score
AdditionalRisks == { 0 - 5 * (Scale \div 10), 9 * (Scale \div 10) }

HistoryOf(history, entity_id) ==
    IF entity_id \in DOMAIN history THEN history[entity_id] ELSE <<>>

CalculateEntityRisk ==
    \E input \in RiskInputs :
        LET entity == input[1]
            r == calculate_entity_risk(risk_cache, historical_scores,
                                       entity, input[2], input[3], now)
        IN /\ Len(HistoryOf(r.historical_scores, entity.entity_id)) <= MaxHistory
           /\ risk_cache' = r.risk_cache
           /\ historical_scores' = r.historical_scores
           /\ returned' = r.returned
           /\ last' = [ NoCall EXCEPT !.op = "calculate_entity_risk",
                          !.entity_id = entity.entity_id, !.stored = r.ok ]
           /\ UNCHANGED <<now, alertVars, engineVars, tasks>>

UpdateRiskScore ==
    \E id \in RiskEntityIds, additional_risk \in AdditionalRisks :
        /\ id \in DOMAIN risk_cache =>
              Len(risk_cache[id].manual_adjustments) < MaxAdjustments
        /\ risk_cache' = update_risk_score(risk_cache, id, additional_risk)
        /\ last' = [ NoCall EXCEPT !.op = "update_risk_score", !.entity_id = id,
                       !.stored = id \in DOMAIN risk_cache ]
        /\ returned' = NoRiskScore
        /\ UNCHANGED <<now, alertVars, historical_scores, engineVars, tasks>>

RiskTick ==
    /\ \E t \in RiskTimes : t > now /\ now' = t
    /\ last' = [ NoCall EXCEPT !.op = "tick" ]
    /\ returned' = NoRiskScore
    /\ UNCHANGED <<alertVars, risk_cache, historical_scores, engineVars, tasks>>

NextRisk ==
    \/ CalculateEntityRisk
    \/ UpdateRiskScore
    \/ RiskTick

SpecRisk == Init /\ [][NextRisk]_vars

----------------------------------------------------------------------------
(* Properties of the risk scorer *)

\* A RiskScore whose overall_score is within [0, 1] and whose risk_level is
\* the one the cut points 0.8, 0.6, 0.4, 0.2 give for it.
WellFormedScore(score) ==
    LET tenths == Scale \div 10
        level == IF score.overall_score >= 8 * tenths THEN "very_high"
                 ELSE IF score.overall_score >= 6 * tenths THEN "high"
                 ELSE IF score.overall_score >= 4 * tenths THEN "medium"
                 ELSE IF score.overall_score >= 2 * tenths THEN "low"
                 ELSE "very_low"
    IN /\ score.overall_score >= 0
       /\ score.overall_score <= Scale
       /\ score.risk_level = level

\* C9: every RiskScore returned or held in risk_cache has an overall_score
\* within [0, 1] and the risk_level of the cut-point table.
C9_ScoreWithinBounds ==
    /\ \A id \in DOMAIN risk_cache : WellFormedScore(risk_cache[id])
    /\ returned # NoRiskScore => WellFormedScore(returned)

Ordered(scores) ==
    \A i, j \in 1..Len(scores) : i < j => scores[i][1] <= scores[j][1]

WithinRetention(scores) ==
    \A i \in 1..Len(scores) : scores[i][1] >= now - RetentionDays * 1440

C28_CacheAgreesWithHistory ==
    \A id \in DOMAIN risk_cache :
        LET scores == HistoryOf(historical_scores, id)
        IN /\ Len(scores) > 0
           /\ scores[Len(scores)][2] = risk_cache[id].overall_score

\* C11: a calculate_entity_risk that returned a computed score has made it
\* the entity's entry of risk_cache and has added one entry, the last, to
\* the entity's history, whose other entries are the latest of the old
\* ones; the entries and histories of the other entities are as they were.
C11_CalculateFrame ==
    [][ (last'.op = "calculate_entity_risk" /\ last'.stored) =>
          LET e == last'.entity_id
              old == HistoryOf(historical_scores, e)
              new == HistoryOf(historical_scores', e)
              kept == Len(new) - 1
          IN /\ e \in DOMAIN risk_cache'
             /\ risk_cache'[e] = returned'
             /\ kept >= 0
             /\ kept <= Len(old)
             /\ new[Len(new)] = <<now, returned'.overall_score>>
             /\ \A i \in 1..kept : new[i] = old[Len(old) - kept + i]
             /\ DOMAIN risk_cache' \ {e} = DOMAIN risk_cache \ {e}
             /\ DOMAIN historical_scores' \ {e} = DOMAIN historical_scores \ {e}
             /\ \A o \in DOMAIN risk_cache \ {e} : risk_cache'[o] = risk_cache[o]
             /\ \A o \in DOMAIN historical_scores \ {e} :
                   historical_scores'[o] = historical_scores[o] ]_vars

\* A second score for the user while the device has its own score and
\* history.
C11_Witness ==
    /\ last.op = "calculate_entity_risk"
    /\ last.stored
    /\ last.entity_id = "u1"
    /\ Len(historical_scores["u1"]) = 2
    /\ "d2" \in DOMAIN risk_cache
    /\ "d2" \in DOMAIN historical_scores

\* C13: a computed score of an entity with a history entry is the weighted
\* score of its factors times a decay factor: 1 when no time has passed
\* since the last entry, one half (to the rounding of the arithmetic) after
\* 24 hours, never above 1, never below 0; without a history entry it is the
\* weighted score itself.
C13_TimeDecay ==
    [][ (last'.op = "calculate_entity_risk" /\ last'.stored) =>
          LET old == HistoryOf(historical_scores, last'.entity_id)
              raw == _calculate_weighted_score(returned'.risk_factors)
              overall == returned'.overall_score
              elapsed == now - old[Len(old)][1]
          IN IF old = <<>>
             THEN overall = raw
             ELSE /\ overall >= 0
                  /\ overall <= raw
                  /\ elapsed = 0 => overall = raw
                  /\ elapsed = 1440 =>
                        /\ 2 * overall <= raw + 2
                        /\ 2 * overall >= raw - 2 ]_vars

\* A score computed 24 hours after the entity's first one.
C13_Witness ==
    /\ last.op = "calculate_entity_risk"
    /\ last.stored
    /\ now = 1440
    /\ Len(historical_scores[last.entity_id]) = 2
    /\ historical_scores[last.entity_id][1][1] = 0
    /\ returned.overall_score > Scale \div 10

WeightTotal == SumOver(Weights, DOMAIN Weights)

\* The weighted combination of the factors of a score stays within [0, 1]
\* when the factors do.
CombinedWithinBounds(score) ==
    (\A k \in DOMAIN score.risk_factors :
        score.risk_factors[k] >= 0 /\ score.risk_factors[k] <= Scale)
    => /\ _calculate_weighted_score(score.risk_factors) >= 0
       /\ _calculate_weighted_score(score.risk_factors) <= Scale

\* C14 as stated: the weights of the table sum to 1.0, a factor absent from
\* the table weighs 0.01, and the combined score is within [0, 1].
C14_WeightsSumToOne ==
    /\ WeightTotal = 100
    /\ WeightOf("service_account_risk") = 1
    /\ returned # NoRiskScore => CombinedWithinBounds(returned)

\* C14: the weights of the table sum to 1.41, the combination divides the
\* weighted sum by the weights of the factors present, a factor absent from
\* the table weighs 0.01, and the combined score is within [0, 1].
C14_WeightsNormalised ==
    /\ WeightTotal = 141
    /\ "service_account_risk" \notin DOMAIN Weights
    /\ WeightOf("service_account_risk") = 1
    /\ returned # NoRiskScore =>
          /\ CombinedWithinBounds(returned)
          /\ LET f == returned.risk_factors
                 present == SumOver([k \in DOMAIN f |-> WeightOf(k)], DOMAIN f)
                 weighted == SumOver([k \in DOMAIN f |-> f[k] * WeightOf(k)], DOMAIN f)
             IN returned.calculation_method = "weighted_ensemble" =>
                   /\ present > 0
                   /\ _calculate_weighted_score(f) * present <= weighted
                   /\ (_calculate_weighted_score(f) + 1) * present > weighted

\* A computed score with a factor that is absent from the table.
C14_Witness ==
    /\ returned # NoRiskScore
    /\ returned.calculation_method = "weighted_ensemble"
    /\ "service_account_risk" \in DOMAIN returned.risk_factors
    /\ _calculate_weighted_score(returned.risk_factors) > Scale \div 10

----------------------------------------------------------------------------
(* BehaviorEngine: baselines and anomaly detectors *)

NoBaseline == [ entity_id |-> "" ]      \* Optional[BehaviorBaseline] = None
NoEntity == [ entity_id |-> "" ]        \* Optional[Entity] = None

\* login_frequency_std_multiplier of AnalyticsConfig.BASELINE_THRESHOLDS
StdMultiplier == 3

\* A value handed to a Dict[str, float] field: a number or a nested dict.
Float(v) == [ kind |-> "float", value |-> v ]
Nested == [ kind |-> "dict", value |-> 0 ]

\* The statistical_measures argument of _create_baseline.  Event counts are
\* whole events; frequencies are in units of 1/Scale.
MockStatisticalMeasures ==
    ("avg_events_per_hour" :> Float(15))
    @@ ("events_std" :> Float(5))
    @@ ("hourly_frequency" :> Nested)

\* pydantic validation of statistical_measures: Dict[str, float]
ValidMeasures(measures) == \A k \in DOMAIN measures : measures[k].kind = "float"

BehaviorBaseline(entity_id, typical_hours, measures, t) ==
    [ entity_id |-> entity_id,
      typical_hours |-> typical_hours,
      statistical_measures |-> [ k \in DOMAIN measures |-> measures[k].value ],
      baseline_period_end |-> t ]

\* BehaviorBaseline(...) raises a ValidationError when a measure is not a
\* float; the handler logs it and returns None.
_create_baseline(entity, t) ==
    IF ValidMeasures(MockStatisticalMeasures)
    THEN BehaviorBaseline(entity.entity_id, 9..17, MockStatisticalMeasures, t)
    ELSE NoBaseline

\* Variant: a default baseline is built and cached whatever the entity's
\* baseline_established flag says.
_get_or_create_baseline_Default(cache, entity, t) ==
    IF entity.entity_id \in DOMAIN cache
    THEN [ baselines |-> cache, baseline |-> cache[entity.entity_id] ]
    ELSE LET baseline == BehaviorBaseline(entity.entity_id, 9..17,
                             ("avg_events_per_hour" :> Float(15))
                             @@ ("events_std" :> Float(5)), t)
         IN [ baselines |-> (entity.entity_id :> baseline) @@ cache,
              baseline |-> baseline ]

_get_or_create_baseline(cache, entity, t) ==
    IF entity.entity_id \in DOMAIN cache
    THEN [ baselines |-> cache, baseline |-> cache[entity.entity_id] ]
    ELSE IF entity.baseline_established
         THEN LET baseline == _create_baseline(entity, t)
              IN [ baselines |-> IF baseline # NoBaseline
                                 THEN (entity.entity_id :> baseline) @@ cache
                                 ELSE cache,
                   baseline |-> baseline ]
         ELSE [ baselines |-> cache, baseline |-> NoBaseline ]

\* current_hour is datetime.utcnow().hour: the clock t, not the features.
\* A measure 'hourly_frequency' of a valid baseline is a float, whose .get
\* raises; the handler logs it and returns no anomaly.
_detect_time_anomalies(entity, features, baseline, t) ==
    LET current_hour == Hour(t)
        measures == baseline.statistical_measures
    IN IF baseline.typical_hours # {} /\ current_hour \notin baseline.typical_hours
       THEN IF "hourly_frequency" \in DOMAIN measures
            THEN <<>>
            ELSE LET anomaly_score == Scale - Ratio(0, 1)
                 IN IF anomaly_score > StdMultiplier * (Scale \div 10)
                    THEN << Anomaly("time_anomaly", anomaly_score) >>
                    ELSE <<>>
       ELSE <<>>

\* FeatureVector.features['total_events']
FeatureVector(total_events) == [ total_events |-> total_events ]

Abs(x) == IF x < 0 THEN 0 - x ELSE x

\* z_score = abs(current_volume - baseline_volume) / baseline_std
_detect_volume_anomalies(entity, features, baseline) ==
    LET measures == baseline.statistical_measures
        current_volume == features.total_events
        baseline_volume == IF "avg_events_per_hour" \in DOMAIN measures
                           THEN measures["avg_events_per_hour"] ELSE 0
        baseline_std == IF "events_std" \in DOMAIN measures
                        THEN measures["events_std"] ELSE 1
    IN IF baseline_volume > 0
       THEN IF baseline_std = 0
            THEN <<>>       \* ZeroDivisionError, logged
            ELSE LET deviation == Abs(current_volume - baseline_volume)
                 IN IF deviation > StdMultiplier * baseline_std
                    THEN << Anomaly("volume_anomaly",
                                Min(Ratio(deviation, 10 * baseline_std), Scale)) >>
                    ELSE <<>>
       ELSE <<>>

\* The isolation forest is never fitted: _isolation_forest_detection is 0.0.
_detect_pattern_anomalies(entity, features, baseline) == <<>>

\* GeoAnalyzer.  A source_location is a latitude in whole degrees on one
\* meridian, where the haversine distance is earth_radius_km * pi / 180
\* kilometres per degree.
KmPerDegree == 111
MaxSpeedKmh == 1000
NoLocation == 0 - 1000     \* Optional[Dict] = None; latitudes are in -90..90

GeoEvent(id, ts, latitude) ==
    [ event_id |-> id, timestamp |-> ts, source_location |-> latitude ]

\* getattr(event, 'source_location', None)
SourceLocation(event) ==
    IF "source_location" \in DOMAIN event THEN event.source_location ELSE NoLocation

calculate_distance(lat1, lat2) == Abs(lat1 - lat2) * KmPerDegree

_calculate_event_distance(event1, event2) ==
    IF SourceLocation(event1) = NoLocation \/ SourceLocation(event2) = NoLocation
    THEN 0
    ELSE calculate_distance(SourceLocation(event1), SourceLocation(event2))

\* sorted(events, key=lambda x: x.timestamp): a stable sort.
RECURSIVE InsertByTimestamp(_, _)
InsertByTimestamp(sorted, event) ==
    IF sorted = <<>>
    THEN << event >>
    ELSE IF sorted[Len(sorted)].timestamp <= event.timestamp
         THEN Append(sorted, event)
         ELSE Append(InsertByTimestamp(SubSeq(sorted, 1, Len(sorted) - 1), event),
                     sorted[Len(sorted)])

RECURSIVE SortedByTimestamp(_)
SortedByTimestamp(events) ==
    IF events = <<>>
    THEN <<>>
    ELSE InsertByTimestamp(
             SortedByTimestamp(SubSeq(events, 1, Len(events) - 1)),
             events[Len(events)])

\* required_speed = distance_km / time_diff_hours > max_speed_kmh, with the
\* time difference in minutes.
ImpossiblePair(prev_event, curr_event) ==
    /\ SourceLocation(prev_event) # NoLocation
    /\ SourceLocation(curr_event) # NoLocation
    /\ _calculate_event_distance(prev_event, curr_event) > 0
    /\ curr_event.timestamp - prev_event.timestamp > 0
    /\ _calculate_event_distance(prev_event, curr_event) * 60
           > MaxSpeedKmh * (curr_event.timestamp - prev_event.timestamp)

\* The later events of the impossible-travel pairs, in time order.
LaterEvents(sorted) ==
    SelectSeq([ i \in 1..(Len(sorted) - 1) |->
                  [ impossible |-> ImpossiblePair(sorted[i], sorted[i + 1]),
                    later_event |-> sorted[i + 1] ] ],
              LAMBDA pair : pair.impossible)

detect_impossible_travel(events) == LaterEvents(SortedByTimestamp(events))

\* AnomalyDetection(anomaly_type=LOCATION_ANOMALY, anomaly_score=0.9,
\* confidence=0.95, event_id=later_event.event_id)
LocationAnomaly(event_id) ==
    ("event_id" :> event_id) @@ ("confidence" :> 95 * (Scale \div 100))
    @@ Anomaly("location_anomaly", 9 * (Scale \div 10))

LocationAnomalies(pairs) ==
    [ i \in 1..Len(pairs) |-> LocationAnomaly(pairs[i].later_event.event_id) ]

_detect_geographic_anomalies(entity, events) ==
    LocationAnomalies(detect_impossible_travel(events))

_detect_anomalies(cache, entity, features, events, t) ==
    LET got == _get_or_create_baseline(cache, entity, t)
    IN IF got.baseline = NoBaseline
       THEN [ baselines |-> got.baselines, baseline |-> NoBaseline,
              anomalies |-> <<>> ]
       ELSE [ baselines |-> got.baselines, baseline |-> got.baseline,
              anomalies |->
                  _detect_time_anomalies(entity, features, got.baseline, t)
                  \o _detect_volume_anomalies(entity, features, got.baseline)
                  \o _detect_pattern_anomalies(entity, features, got.baseline)
                  \o _detect_geographic_anomalies(entity, events) ]

----------------------------------------------------------------------------
(* UEBASystem: baseline update *)

\* "This would typically query entity database": returns None.
_get_entity_by_id(entity_id) == NoEntity

\* Raises ValueError for an entity that is not found; force_rebuild is not
\* read and the result of _create_baseline is not stored.
update_entity_baseline(cache, entity_id, force_rebuild, t) ==
    LET entity == _get_entity_by_id(entity_id)
    IN IF entity = NoEntity
       THEN [ baselines |-> cache, raised |-> TRUE ]
       ELSE [ baselines |-> cache, raised |-> FALSE ]

----------------------------------------------------------------------------
(* UEBASystem: batch analysis *)

\* BehaviorEngine.analyze_entity_behavior: the events of the last 24 hours;
\* without any, the empty analysis.  total_events is the only feature the
\* detectors read.
_create_empty_analysis(cache) == [ baselines |-> cache, anomalies_detected |-> <<>> ]

engine_analyze_entity_behavior(cache, entity, events, t) ==
    LET recent == SelectSeq(events, LAMBDA e : e.timestamp >= t - 1440)
    IN IF recent = <<>>
       THEN _create_empty_analysis(cache)
       ELSE LET r == _detect_anomalies(cache, entity, FeatureVector(Len(recent)),
                                       recent, t)
            IN [ baselines |-> r.baselines, anomalies_detected |-> r.anomalies ]

\* The mock entity of _collect_entities: a plain Entity has neither
\* is_privileged nor is_trusted and no last_activity.
MockEntity(entity_id, entity_type) ==
    ("baseline_established" :> TRUE)
    @@ Entity(entity_id, entity_type, FALSE, TRUE, NoneTime, FALSE)

\* Variant: an empty entity list is analysed as the one default entity.
_collect_entities_Default(entity_ids, entity_type) ==
    IF entity_ids = <<>>
    THEN [ raised |-> FALSE, entities |-> << MockEntity("default", "user") >> ]
    ELSE [ raised |-> FALSE,
           entities |-> [ i \in 1..Len(entity_ids) |->
                            MockEntity(entity_ids[i],
                                IF entity_type = "none" THEN "user"
                                ELSE entity_type) ] ]

\* User(...) and Device(...) are built without the required entity_type:
\* Entity.__init__ raises a ValidationError before the subclass sets it.
_collect_entities(entity_ids, entity_type) ==
    IF entity_ids # <<>> /\ entity_type \in {"user", "device"}
    THEN [ raised |-> TRUE, entities |-> <<>> ]
    ELSE [ raised |-> FALSE,
           entities |-> [ i \in 1..Len(entity_ids) |->
                            MockEntity(entity_ids[i],
                                IF entity_type = "none" THEN "user"
                                ELSE entity_type) ] ]

\* "This would typically query event databases": returns [].
_collect_entity_events(entity_id) == <<>>

\* "This would typically query anomaly storage": returns [].
_get_anomalies_by_ids(anomaly_ids) == <<>>

\* The Alert keeps severity as a plain str (use_enum_values).
_create_risk_alert(entity, risk_score, id, t) ==
    Alert(id, entity.entity_id,
          IF risk_score.risk_level = "high" THEN "high" ELSE "critical",
          FALSE, t)

AnalysisRequest(entity_ids, entity_type, analysis_types) ==
    [ entity_ids |-> entity_ids, entity_type |-> entity_type,
      analysis_types |-> analysis_types ]

AnalysisResponse(request, status, anomalies, risk_scores, alerts, t) ==
    [ status |-> status, request |-> request, anomalies |-> anomalies,
      risk_scores |-> risk_scores, alerts |-> alerts, timestamp |-> t ]

\* The risk-scoring part of one turn of the loop: r is the outcome of
\* calculate_entity_risk for the entity.
AddRiskScore(acc, r, entity, t) ==
    [ acc EXCEPT
        !.risk_cache = r.risk_cache,
        !.historical_scores = r.historical_scores,
        !.risk_scores = Append(@, r.returned),
        !.alerts = IF r.returned.risk_level \in {"high", "very_high"}
                   THEN Append(@, _create_risk_alert(entity, r.returned,
                                     acc.next_id + Len(@), t))
                   ELSE @ ]

\* The behaviour-analysis part of one turn: the anomalies of the analysis
\* are looked up by id and added to those of the batch.
AddAnalysis(acc, analysis) ==
    [ acc EXCEPT
        !.baselines = analysis.baselines,
        !.anomalies = IF analysis.anomalies_detected # <<>>
                      THEN @ \o _get_anomalies_by_ids(analysis.anomalies_detected)
                      ELSE @ ]

ScoreEntity(acc, entity, entity_events, request, t) ==
    IF "risk_scoring" \in request.analysis_types
    THEN AddRiskScore(acc,
             calculate_entity_risk(acc.risk_cache, acc.historical_scores,
                                   entity, entity_events, acc.anomalies, t),
             entity, t)
    ELSE acc

\* One turn of the loop over the entities: acc holds the engine and scorer
\* state and the lists gathered so far.
AnalyzeEntity(acc, entity, entity_events, request, t) ==
    IF "anomaly_detection" \in request.analysis_types
       \/ "behavioral_analysis" \in request.analysis_types
    THEN ScoreEntity(
             AddAnalysis(acc,
                 engine_analyze_entity_behavior(acc.baselines, entity,
                                                entity_events, t)),
             entity, entity_events, request, t)
    ELSE ScoreEntity(acc, entity, entity_events, request, t)

RECURSIVE AnalyzeEntities(_, _, _, _)
AnalyzeEntities(acc, entities, request, t) ==
    IF entities = <<>>
    THEN acc
    ELSE AnalyzeEntities(
             AnalyzeEntity(acc, Head(entities),
                           _collect_entity_events(Head(entities).entity_id),
                           request, t),
             Tail(entities), request, t)

\* process_alert for the first of the alerts.
AfterProcess(acc, r) ==
    [ acc EXCEPT !.active_alerts = r.active_alerts,
                 !.alert_cooldowns = r.alert_cooldowns,
                 !.sent = @ \o r.sent ]

\* for alert in alerts: await self.alert_manager.process_alert(alert)
RECURSIVE ProcessAlerts(_, _, _, _)
ProcessAlerts(acc, alerts, channels, t) ==
    IF alerts = <<>>
    THEN acc
    ELSE ProcessAlerts(
             AfterProcess(acc,
                 process_alert(acc.active_alerts, acc.alert_cooldowns,
                               channels, Head(alerts), t)),
             Tail(alerts), channels, t)

ProcessAllAlerts(acc, channels, t) == ProcessAlerts(acc, acc.alerts, channels, t)

\* The lists of the batch, empty, next to the state before the call.
StartOfBatch(st) ==
    [ baselines |-> st.baselines,
      risk_cache |-> st.risk_cache,
      historical_scores |-> st.historical_scores,
      active_alerts |-> st.active_alerts,
      alert_cooldowns |-> st.alert_cooldowns,
      notification_channels |-> st.notification_channels,
      sent |-> <<>>,
      next_id |-> st.next_id,
      anomalies |-> <<>>, risk_scores |-> <<>>, alerts |-> <<>> ]

\* The state a call leaves and the AnalysisResponse it returns.
Outcome(acc, request, status, t) ==
    [ state |-> [ baselines |-> acc.baselines,
                  risk_cache |-> acc.risk_cache,
                  historical_scores |-> acc.historical_scores,
                  active_alerts |-> acc.active_alerts,
                  alert_cooldowns |-> acc.alert_cooldowns,
                  sent |-> acc.sent ],
      response |-> AnalysisResponse(request, status, acc.anomalies,
                       acc.risk_scores, acc.alerts, t) ]

AnalyzeCollected(st, collected, request, t) ==
    IF collected.raised \/ collected.entities = <<>>
    THEN \* "No entities found", or the except branch of the whole call
         Outcome(StartOfBatch(st), request, "error", t)
    ELSE Outcome(
             ProcessAllAlerts(
                 AnalyzeEntities(StartOfBatch(st), collected.entities, request, t),
                 st.notification_channels, t),
             request, "completed", t)

\* analyze_entity_behavior of UEBASystem: the state after the call and the
\* AnalysisResponse returned.  st is the state before the call.
analyze_entity_behavior(st, request, t) ==
    AnalyzeCollected(st,
        _collect_entities(request.entity_ids, request.entity_type), request, t)

----------------------------------------------------------------------------
(* BehaviorEngine scenario: detector and baseline calls over half a day *)

MaxDetectTime == 720
DetectTickSteps == {180}

EngineEntity(id, established) ==
    ("baseline_established" :> established)
    @@ Entity(id, "user", FALSE, FALSE, NoneTime, FALSE)

EngineEntities == { EngineEntity("u1", TRUE), EngineEntity("u2", FALSE) }

EngineFeatures == { FeatureVector(15), FeatureVector(40) }

\* Valid baselines handed to the detectors: business hours with and without
\* an hourly frequency measure, and one without typical hours.
BusinessBaseline ==
    BehaviorBaseline("u1", 9..17,
        ("avg_events_per_hour" :> Float(15)) @@ ("events_std" :> Float(5)), 0)
FrequencyBaseline ==
    BehaviorBaseline("u1", 9..17,
        ("avg_events_per_hour" :> Float(15)) @@ ("events_std" :> Float(5))
        @@ ("hourly_frequency" :> Float(Scale \div 10)), 0)
AnyHourBaseline ==
    BehaviorBaseline("u1", {}, ("events_std" :> Float(5)), 0)
EngineBaselines == { BusinessBaseline, FrequencyBaseline, AnyHourBaseline }

EngineEntityIds == {"u1", "u2"}

\* A login at latitude 3, one an hour later at latitude 51 and one nine
\* hours after that at latitude 48, submitted out of time order; and two
\* events without a location.
TravelEvents ==
    << GeoEvent("g2", 60, 51), GeoEvent("g3", 600, 48), GeoEvent("g1", 0, 3) >>
PlainEvents ==
    << Event("ev1", 0, "success", "none", "10.0.0.1", 0),
       Event("ev2", 60, "success", "none", "10.0.0.1", 0) >>
EngineEvents == { <<>>, TravelEvents, PlainEvents }

Detection(op, entity, features, events, baseline, anomalies, raised) ==
    [ op |-> op, entity_id |-> entity.entity_id,
      baseline_established |-> entity.baseline_established,
      features |-> features, events |-> events, baseline |-> baseline,
      anomalies |-> anomalies, raised |-> raised ]

GetOrCreateBaseline ==
    \E entity \in EngineEntities :
        LET r == _get_or_create_baseline(baselines, entity, now)
        IN /\ baselines' = r.baselines
           /\ detected' = Detection("_get_or_create_baseline", entity,
                              FeatureVector(0), <<>>, r.baseline, <<>>, FALSE)
           /\ UNCHANGED <<now, alertVars, sent, last, riskVars, response, tasks>>

DetectAnomalies ==
    \E entity \in EngineEntities, features \in EngineFeatures,
       events \in EngineEvents :
        LET r == _detect_anomalies(baselines, entity, features, events, now)
        IN /\ baselines' = r.baselines
           /\ detected' = Detection("_detect_anomalies", entity, features,
                              events, r.baseline, r.anomalies, FALSE)
           /\ UNCHANGED <<now, alertVars, sent, last, riskVars, response, tasks>>

DetectTimeAnomalies ==
    \E entity \in EngineEntities, features \in EngineFeatures,
       baseline \in EngineBaselines :
        /\ detected' = Detection("_detect_time_anomalies", entity, features,
                           <<>>, baseline,
                           _detect_time_anomalies(entity, features, baseline, now),
                           FALSE)
        /\ UNCHANGED <<now, alertVars, sent, last, riskVars, baselines, response, tasks>>

DetectVolumeAnomalies ==
    \E entity \in EngineEntities, features \in EngineFeatures,
       baseline \in EngineBaselines :
        /\ detected' = Detection("_detect_volume_anomalies", entity, features,
                           <<>>, baseline,
                           _detect_volume_anomalies(entity, features, baseline),
                           FALSE)
        /\ UNCHANGED <<now, alertVars, sent, last, riskVars, baselines, response, tasks>>

DetectGeographicAnomalies ==
    \E entity \in EngineEntities, events \in EngineEvents :
        /\ detected' = Detection("_detect_geographic_anomalies", entity,
                           FeatureVector(0), events, NoBaseline,
                           _detect_geographic_anomalies(entity, events), FALSE)
        /\ UNCHANGED <<now, alertVars, sent, last, riskVars, baselines, response, tasks>>

UpdateEntityBaseline ==
    \E entity_id \in EngineEntityIds, force_rebuild \in BOOLEAN :
        LET r == update_entity_baseline(baselines, entity_id, force_rebuild, now)
        IN /\ baselines' = r.baselines
           /\ detected' = Detection("update_entity_baseline",
                              EngineEntity(entity_id, FALSE), FeatureVector(0),
                              <<>>, NoBaseline, <<>>, r.raised)
           /\ UNCHANGED <<now, alertVars, sent, last, riskVars, response, tasks>>

NextEngine ==
    \/ GetOrCreateBaseline
    \/ DetectAnomalies
    \/ DetectTimeAnomalies
    \/ DetectVolumeAnomalies
    \/ DetectGeographicAnomalies
    \/ UpdateEntityBaseline
    \/ Tick(DetectTickSteps, MaxDetectTime)

SpecEngine == Init /\ [][NextEngine]_vars

----------------------------------------------------------------------------
(* UEBASystem scenario: batch analyses between direct scorer calls *)

MaxAnalyzeTime == 1440
AnalyzeTickSteps == {1440}

AnalysisEntityIds == { <<>>, <<"u1">>, <<"u1", "d2">> }
AnalysisEntityTypes == {"none", "user", "service_account"}
AnalysisTypes == { {"anomaly_detection", "risk_scoring"}, {"anomaly_detection"} }

AnalysisRequests ==
    { AnalysisRequest(ids, type, types) :
        ids \in AnalysisEntityIds, type \in AnalysisEntityTypes,
        types \in AnalysisTypes }

SystemState ==
    [ baselines |-> baselines,
      risk_cache |-> risk_cache,
      historical_scores |-> historical_scores,
      active_alerts |-> active_alerts,
      alert_cooldowns |-> alert_cooldowns,
      notification_channels |-> notification_channels,
      sent |-> sent,
      next_id |-> NextAlertId ]

ApplyAnalysis(r) ==
    /\ \A e \in DOMAIN r.state.historical_scores :
          Len(r.state.historical_scores[e]) <= MaxHistory
    /\ baselines' = r.state.baselines
    /\ risk_cache' = r.state.risk_cache
    /\ historical_scores' = r.state.historical_scores
    /\ active_alerts' = r.state.active_alerts
    /\ alert_cooldowns' = r.state.alert_cooldowns
    /\ sent' = r.state.sent
    /\ response' = r.response
    /\ returned' = NoRiskScore
    /\ last' = [ NoCall EXCEPT !.op = "analyze_entity_behavior" ]
    /\ UNCHANGED <<now, notification_channels, detected, tasks>>

Analyze ==
    \E request \in AnalysisRequests :
        ApplyAnalysis(analyze_entity_behavior(SystemState, request, now))

NextAnalyze ==
    \/ Analyze
    \/ UpdateRiskScore
    \/ Tick(AnalyzeTickSteps, MaxAnalyzeTime)

SpecAnalyze == Init /\ [][NextAnalyze]_vars

----------------------------------------------------------------------------
(* Properties of the BehaviorEngine *)

BaselineCalls == {"_get_or_create_baseline", "_detect_anomalies"}

\* C15: a baseline enters the cache only through a call for an entity whose
\* baseline_established is true; a get-or-create or an anomaly detection for
\* an entity without the flag and without a cached baseline returns no
\* baseline, caches nothing and returns an empty anomaly list without raising.
C15_NoBaselineWithoutFlag ==
    [][ /\ \A e \in DOMAIN baselines' \ DOMAIN baselines :
              detected'.entity_id = e /\ detected'.baseline_established
        /\ ( /\ detected'.op \in BaselineCalls
             /\ now' = now
             /\ ~detected'.baseline_established
             /\ detected'.entity_id \notin DOMAIN baselines )
           => /\ baselines' = baselines
              /\ detected'.baseline = NoBaseline
              /\ detected'.anomalies = <<>>
              /\ ~detected'.raised ]_vars

C15_Witness ==
    /\ detected.op = "_detect_anomalies"
    /\ ~detected.baseline_established
    /\ detected.entity_id \notin DOMAIN baselines
    /\ detected.features.total_events = 40
    /\ detected.baseline = NoBaseline
    /\ detected.anomalies = <<>>

\* C16: after update_entity_baseline(entity_id, force_rebuild) the cache
\* holds, for entity_id, a baseline computed by that call, and the call does
\* not raise.
C16_UpdateReplacesBaseline ==
    [][ (detected'.op = "update_entity_baseline" /\ now' = now)
        => /\ ~detected'.raised
           /\ detected'.entity_id \in DOMAIN baselines'
           /\ baselines'[detected'.entity_id].baseline_period_end = now' ]_vars

Detectors == {"_detect_time_anomalies", "_detect_volume_anomalies"}

\* C17: two consecutive calls of the same detector with the same entity,
\* features and baseline return the same anomalies, whenever they are run.
C17_DetectorsPure ==
    [][ ( /\ detected.op \in Detectors
          /\ detected'.op = detected.op
          /\ detected'.entity_id = detected.entity_id
          /\ detected'.features = detected.features
          /\ detected'.baseline = detected.baseline )
        => detected'.anomalies = detected.anomalies ]_vars

\* C22: without a baseline _detect_anomalies still returns, for every
\* impossible-travel pair of the events, one location anomaly of score 0.9
\* and confidence 0.95 tied to the later event, and nothing else.
C22_LocationWithoutBaseline ==
    (detected.op = "_detect_anomalies" /\ detected.baseline = NoBaseline)
    => LET pairs == detect_impossible_travel(detected.events)
       IN /\ ~detected.raised
          /\ Len(detected.anomalies) = Len(pairs)
          /\ \A i \in 1..Len(pairs) :
                /\ detected.anomalies[i].anomaly_type = "location_anomaly"
                /\ detected.anomalies[i].anomaly_score = 9 * (Scale \div 10)
                /\ detected.anomalies[i].confidence = 95 * (Scale \div 100)
                /\ detected.anomalies[i].event_id = pairs[i].later_event.event_id

----------------------------------------------------------------------------
(* Properties of the batch analysis *)

Analyzed == last.op = "analyze_entity_behavior"

\* The score before time decay, recomputed from the factors of a RiskScore.
PreDecay(score) == _calculate_weighted_score(score.risk_factors)

\* C12: an analysis with the same request and at the same time as the
\* previous one returns the same anomalies and, for every entity, the same
\* score before decay, whatever the first analysis and the scorer calls in
\* between left in the risk cache and the history.
C12_AnalyzeIdempotent ==
    [][ ( /\ last'.op = "analyze_entity_behavior"
          /\ response.status # "none"
          /\ response'.request = response.request
          /\ response'.timestamp = response.timestamp )
        => /\ response'.anomalies = response.anomalies
           /\ Len(response'.risk_scores) = Len(response.risk_scores)
           /\ \A i \in 1..Len(response.risk_scores) :
                 /\ response'.risk_scores[i].entity_id
                        = response.risk_scores[i].entity_id
                 /\ PreDecay(response'.risk_scores[i])
                        = PreDecay(response.risk_scores[i]) ]_vars

\* A second analysis of a two-entity batch at the time of the first one.
C12_Witness ==
    /\ Analyzed
    /\ response.status = "completed"
    /\ response.request.entity_ids = <<"u1", "d2">>
    /\ response.request.entity_type = "service_account"
    /\ Len(response.risk_scores) = 2
    /\ PreDecay(response.risk_scores[1]) > 0
    /\ Len(HistoryOf(historical_scores, "u1")) = 2
    /\ \A i \in 1..2 : historical_scores["u1"][i][1] = now

\* The RiskScore a call returned for one entity, if it returned one.
ScoreFor(outcome, entity_id) ==
    LET scores == outcome.response.risk_scores
        at == { i \in 1..Len(scores) : scores[i].entity_id = entity_id }
    IN IF at = {} THEN NoRiskScore ELSE scores[CHOOSE i \in at : TRUE]

\* The analysis of a batch in the current state, with the default analysis
\* types.
BatchOf(entity_ids, entity_type) ==
    analyze_entity_behavior(SystemState,
        AnalysisRequest(entity_ids, entity_type,
                        {"anomaly_detection", "risk_scoring"}),
        now)

\* The scores of u1 and d2 in the two orders of the batch, against those of
\* each entity analysed alone.
SameScores(both, swapped, first, second) ==
    /\ ScoreFor(both, "u1") = ScoreFor(first, "u1")
    /\ ScoreFor(swapped, "u1") = ScoreFor(first, "u1")
    /\ ScoreFor(both, "d2") = ScoreFor(second, "d2")
    /\ ScoreFor(swapped, "d2") = ScoreFor(second, "d2")

\* C23: in every state, the risk score an analysis returns for an entity is
\* the same whether the entity is analysed alone, first of a batch of two or
\* second of it.
C23_BatchIndependent ==
    \A entity_type \in AnalysisEntityTypes :
        SameScores(BatchOf(<<"u1", "d2">>, entity_type),
                   BatchOf(<<"d2", "u1">>, entity_type),
                   BatchOf(<<"u1">>, entity_type),
                   BatchOf(<<"d2">>, entity_type))

\* A batch of two has been analysed a day after a first analysis, and the
\* score of its first entity has decayed.
C23_Witness ==
    /\ Analyzed
    /\ response.status = "completed"
    /\ response.request.entity_ids = <<"u1", "d2">>
    /\ Len(response.risk_scores) = 2
    /\ Len(HistoryOf(historical_scores, "u1")) = 2
    /\ historical_scores["u1"][1][1] < now
    /\ response.risk_scores[1].overall_score > 0
    /\ response.risk_scores[1].overall_score < PreDecay(response.risk_scores[1])

\* C18: an analysis of an empty entity-id list returns a response without
\* anomalies, risk scores or alerts and changes neither the risk cache, the
\* history, the baseline cache nor the alert state.
C18_EmptyRequest ==
    [][ (last'.op = "analyze_entity_behavior"
         /\ response'.request.entity_ids = <<>>)
        => /\ response'.anomalies = <<>>
           /\ response'.risk_scores = <<>>
           /\ response'.alerts = <<>>
           /\ UNCHANGED <<risk_cache, historical_scores, baselines,
                          active_alerts, alert_cooldowns,
                          notification_channels>> ]_vars

C18_Witness ==
    /\ Analyzed
    /\ response.request.entity_ids = <<>>
    /\ response.status = "error"
    /\ response.risk_scores = <<>>
    /\ "u1" \in DOMAIN risk_cache

\* C19: an analysis of a non-empty batch that asks for risk scoring returns
\* one risk score for every requested entity, computed or default.
C19_BatchSurvivesFailure ==
    [][ ( /\ last'.op = "analyze_entity_behavior"
          /\ response'.request.entity_ids # <<>>
          /\ "risk_scoring" \in response'.request.analysis_types )
        => /\ Len(response'.risk_scores) = Len(response'.request.entity_ids)
           /\ \A i \in 1..Len(response'.request.entity_ids) :
                 response'.risk_scores[i].entity_id
                     = response'.request.entity_ids[i] ]_vars

----------------------------------------------------------------------------
(* AlertManager scenario: two process_alert coroutines on one event loop *)

\* None of the coroutines process_alert awaits suspends (they hold no I/O
\* await, no sleep and no lock), so a scheduled process_alert runs from its
\* first line to its return without yielding to the event loop: a task is
\* either pending or done, and the loop chooses which pending task runs.
MaxGatherAlerts == 4
GatherTickSteps == {60}
GatherSeverities == {"medium", "high"}

Task(alert) == [ alert |-> alert, pc |-> "pending", stored |-> FALSE ]

Pending == { i \in 1..Len(tasks) : tasks[i].pc = "pending" }

\* Two process_alert calls are scheduled together, each on a new Alert.
Gather ==
    /\ Pending = {}
    /\ NextAlertId + 1 <= MaxGatherAlerts
    /\ \E e1 \in SpecEntities, e2 \in Entities,
          s1 \in GatherSeverities, s2 \in GatherSeverities, asEnum \in BOOLEAN :
          tasks' = << Task(Alert(NextAlertId, e1, s1, asEnum, now)),
                      Task(Alert(NextAlertId + 1, e2, s2, asEnum, now)) >>
    /\ sent' = <<>>
    /\ last' = [ NoCall EXCEPT !.op = "gather" ]
    /\ UNCHANGED <<now, active_alerts, alert_cooldowns, notification_channels,
                   riskVars, engineVars>>

\* The event loop runs one pending process_alert to its end.
RunTask ==
    \E i \in Pending :
        LET alert == tasks[i].alert
            r == process_alert(active_alerts, alert_cooldowns,
                               notification_channels, alert, now)
        IN /\ active_alerts' = r.active_alerts
           /\ alert_cooldowns' = r.alert_cooldowns
           /\ sent' = r.sent
           /\ tasks' = [ tasks EXCEPT ![i].pc = "done", ![i].stored = r.stored ]
           /\ last' = [ op |-> "process_alert", alert_id |-> alert.alert_id,
                        entity_id |-> alert.entity_id, severity |-> alert.severity,
                        stored |-> r.stored, fresh |-> TRUE ]
           /\ UNCHANGED <<now, notification_channels, riskVars, engineVars>>

\* Time passes between two gathers, not within one.
GatherTick ==
    /\ Pending = {}
    /\ Tick(GatherTickSteps, MaxTime)

NextGather ==
    \/ Gather
    \/ RunTask
    \/ GatherTick

SpecGather == Init /\ [][NextGather]_vars

\* C21: of two process_alert calls scheduled together for the same entity
\* and severity, at most one stores its alert.
C21_OneStoredPerKey ==
    ( /\ Len(tasks) = 2
      /\ Pending = {}
      /\ tasks[1].alert.entity_id = tasks[2].alert.entity_id
      /\ tasks[1].alert.severity = tasks[2].alert.severity )
    => ~(tasks[1].stored /\ tasks[2].stored)

====
